---------------------------- MODULE Spec2Model ----------------------------
(***************************************************************************)
(* A model of godns: the DNSSEC responder (responser.go), the DNSSEC       *)
(* helpers it calls (GenerateDNSKEY, GenerateRRSIG, GenerateDS,            *)
(* CalculateKeyTag) and the domain-name codec (dns/standard.go).           *)
(*                                                                         *)
(* Domain names are sequences of labels in the responder part (the root   *)
(* is the empty sequence) and sequences of bytes in the codec part.       *)
(* Keys are symbolic: a key pair is identified by a number that no other  *)
(* generated pair shares, a signature is the pair (plaintext, key).       *)
(***************************************************************************)
EXTENDS Integers, Sequences, FiniteSets, TLC

VARIABLES
    cfg,          \* DNSSECResponser.ServerConf, DefaultResp header, DNSSECConf
    DNSSECMap,    \* DNSSECResponser.DNSSECMap: zone name -> DNSSECMaterial
    createCount,  \* per zone: how many times CreateDNSSECMat ran for it
    now,          \* time.Now().UTC().Unix()
    last,         \* the most recent Response call made one at a time, with
                  \* DNSSECMap and served as they were before it
    served,       \* per zone: the answer the first DNSKEY query for it got
    crashed,      \* the process was aborted by a panic or a runtime fatal error
    local,        \* per goroutine: the Response call it is executing
    codec,        \* a name being encoded by EncodeDomainName and decoded again
    bufdec,       \* a buffer and offset given to DecodeDomainNameFromBuffer
    tobuf,        \* a name and a buffer given to EncodeDomainNameToBuffer
    cstr,         \* a character string given to EncodeCharacterStr
    keytag,       \* a DNSKEY RDATA given to CalculateKeyTag
    sigcall,      \* a record list and the other arguments given to GenerateRRSIG
    conn,         \* a TCP connection handled by Netter.handleStreamConn
    ClientMap,    \* StatefulResponser.ClientMap: client IP -> ClientInfo
    arrived,      \* per client IP: the queries received from it, in order
    sResp         \* what the last StatefulResponser.Response call returned

respVars == <<cfg, DNSSECMap, createCount, now, last, served, crashed, local>>
codecVars == <<codec, bufdec>>
statefulVars == <<ClientMap, arrived, sResp>>
auxVars == <<tobuf, cstr, keytag, sigcall, conn, ClientMap, arrived, sResp>>
vars == <<cfg, DNSSECMap, createCount, now, last, served, crashed, local,
          codec, bufdec, tobuf, cstr, keytag, sigcall, conn,
          ClientMap, arrived, sResp>>

(***************************** bounds and inputs ***************************)

\* How far the clock advances past its first value.
MaxClock == 1
\* Goroutines running Response concurrently.
NumThreads == 2
\* Labels of a name given to the codec.
MaxLabels == 4
\* Bytes of a buffer given to DecodeDomainNameFromBuffer.
MaxBufLen == 5
\* Bytes of a character string given to EncodeCharacterStr.
MaxStrLen == 520
\* Bytes of a public key given to CalculateKeyTag.
MaxKeyLen == 4
\* Records of a list given to GenerateRRSIG.
MaxSet == 3
\* Bytes of the body of a message sent over a TCP connection.
MaxBody == 4
\* Queries a StatefulResponser receives.
MaxArrivals == 4

Threads == 1..NumThreads

Root == << >>
T == <<"test">>
A_T == <<"a", "test">>
W_A_T == <<"w", "a", "test">>

QNames == {T, A_T, W_A_T}
Zones == QNames \cup {Root}
ZoneSeq == <<T, A_T, W_A_T, Root>>
ZoneIdx(z) == CHOOSE i \in 1..Len(ZoneSeq) : ZoneSeq[i] = z

QTypes == {"DNSKEY", "DS", "A", "TXT"}

Question1(n, ty) == [Name |-> n, Type |-> ty, Class |-> "IN"]

\* Queries with one question, one with two questions and one with none.
Queries ==
    {[ID |-> 1, QDCount |-> 1, Question |-> <<Question1(n, ty)>>] :
        n \in QNames, ty \in QTypes}
    \cup {[ID |-> 2, QDCount |-> 2,
           Question |-> <<Question1(A_T, "DNSKEY"), Question1(T, "DS")>>],
          [ID |-> 2, QDCount |-> 0, Question |-> << >>]}

\* Queries of the concurrent specification.
ConcQueries ==
    {[ID |-> 1, QDCount |-> 1, Question |-> <<Question1(n, ty)>>] :
        n \in {T, A_T}, ty \in {"DNSKEY", "A"}}

\* DefaultResp.DNS.Header as configured: the documented one, and one with
\* the flags set the other way.
DefaultHeaders ==
    {[ID |-> 0, AA |-> TRUE, RD |-> FALSE, RA |-> FALSE, RCode |-> "NXDomain",
      QDCount |-> 0, ANCount |-> 0],
     [ID |-> 0, AA |-> FALSE, RD |-> TRUE, RA |-> TRUE, RCode |-> "ServFail",
      QDCount |-> 0, ANCount |-> 0]}

\* dAlgo: 8 RSASHA256, 13 ECDSAP256SHA256.  zeroKey: whether Sign of the
\* configured algorithm returns a signature for an empty private key (the
\* RSA variants fail to parse it; the ECDSA variants build the scalar 0 and
\* what ecdsa.Sign does with it depends on the library).
Configs ==
    {c \in [hdr : DefaultHeaders, IP : {"10.0.0.1"}, dAlgo : {8, 13},
            dType : {"SHA256"}, zeroKey : BOOLEAN] :
        c.dAlgo = 8 => ~c.zeroKey}

(******************************* key material ******************************)

DNSKEYFlagZoneKey == 256
DNSKEYFlagSecureEntryPoint == 257
DNSKEYProtocolValue == 3

Nil == <<"nil", 0>>

\* The n-th key pair generated for zone z with the given flag.
KeyId(z, n, flag) ==
    1 + (flag - DNSKEYFlagZoneKey) + 2 * n + 2 * (NumThreads + 2) * (ZoneIdx(z) - 1)

\* DNSRDATADNSKEY.Encode: flags, protocol, algorithm, public key.
DNSKEYEncode(rdata) ==
    <<rdata.Flags \div 256, rdata.Flags % 256, rdata.Protocol, rdata.Algorithm>>
        \o rdata.PublicKey

\* The accumulator is a uint32; an RDATA is at most 65535 bytes long
\* (RDLen is a uint16), so the sum stays below 2^32 and never wraps.
RECURSIVE KeyTagSum(_, _)
KeyTagSum(rdata, i) ==
    IF i > Len(rdata) THEN 0
    ELSE (IF (i - 1) % 2 = 1 THEN rdata[i] ELSE rdata[i] * 256)
            + KeyTagSum(rdata, i + 1)

\* CalculateKeyTag without the fold of the high 16 bits.
CalculateKeyTagNoFold(key) ==
    KeyTagSum(DNSKEYEncode(key), 1) % 65536

CalculateKeyTag(key) ==
    LET ac == KeyTagSum(DNSKEYEncode(key), 1)
        folded == ac + ((ac \div 65536) % 65536)
    IN folded % 65536

\* GenerateDNSKEY: the public key's RDATA and the private key bytes of the
\* key pair k.
GenerateDNSKEY(algo, flag, k) ==
    [rdata |-> [Flags |-> flag, Protocol |-> DNSKEYProtocolValue,
                Algorithm |-> algo, PublicKey |-> <<k>>],
     priv |-> <<"priv", k>>]

(****************************** DNSSEC records *****************************)

\* A resource record.  RDLen is left out: it is the size of RData.
RR(name, type, ttl, rdata) ==
    [Name |-> name, Type |-> type, Class |-> "IN", TTL |-> ttl, RData |-> rdata]

\* CountDomainNameLabels: the number of labels of a name.
CountDomainNameLabels(name) == Len(name)

\* GetUpperDomainName: the name without its first label; the root for a
\* name of one label.
GetUpperDomainName(name) == IF Len(name) <= 1 THEN Root ELSE Tail(name)

\* DNSSECAlgorithmer.Sign: fails on a private key that does not parse.
SignFails(privKey) == privKey = Nil /\ ~cfg.zeroKey
Sign(data, privKey) == [signed |-> data, key |-> privKey]

\* The wire length of a name of the responder: a length byte and the bytes
\* of every label, and the zero byte.
RECURSIVE NameWireLen(_)
NameWireLen(name) ==
    IF name = << >> THEN 1 ELSE Len(Head(name)) + 1 + NameWireLen(Tail(name))

\* Size of an RDATA: A is an address; DNSKEY is flags, protocol, algorithm
\* and the key; DS is key tag, algorithm, digest type and a SHA-256 digest;
\* RRSIG is its fixed fields, the signer's name and the signature, which
\* GenerateRRSIG encodes while it is empty.
RDataSize(type, rdata) ==
    CASE type = "DNSKEY" -> 4 + Len(rdata.PublicKey)
      [] type = "DS" -> 4 + 32
      [] type = "RRSIG" -> 18 + NameWireLen(rdata.SignerName)
      [] OTHER -> 4

\* DNSResourceRecord.Size: owner name, type, class, TTL, RDATA length, RDATA.
RRSize(rr) == NameWireLen(rr.Name) + 2 + 2 + 4 + 2 + RDataSize(rr.Type, rr.RData)

\* DNSResourceRecord.EncodeToBuffer into a buffer with avail bytes left: the
\* number of bytes written, -1 for a buffer that is too small.
RREncodeToBuffer(rr, avail) ==
    LET fields == <<NameWireLen(rr.Name), 2, 2, 4, 2, RDataSize(rr.Type, rr.RData)>>
        written == fields[1] + fields[2] + fields[3] + fields[4] + fields[5] + fields[6]
    IN IF avail < written THEN -1 ELSE written

RECURSIVE SumSizes(_, _)
SumSizes(rrSet, i) ==
    IF i > Len(rrSet) THEN 0 ELSE RRSize(rrSet[i]) + SumSizes(rrSet, i + 1)

\* The loop that encodes the records after the RRSIG: the offset after the
\* i-th record and those that follow, -1 when an encoding fails.
RECURSIVE EncodeRecords(_, _, _, _)
EncodeRecords(rrSet, i, offset, plainLen) ==
    IF i > Len(rrSet) THEN offset
    ELSE LET increment == RREncodeToBuffer(rrSet[i], plainLen - offset)
         IN IF increment < 0 THEN -1
            ELSE EncodeRecords(rrSet, i + 1, offset + increment, plainLen)

\* GenerateRRSIG taking the covered type and the TTL from the last record and
\* signing the records in reverse order.
GenerateRRSIGFromLast(rrSet, algo, expiration, inception, keyTag, signerName, privKey) ==
    LET n == Len(rrSet)
        rrsig == [TypeCovered |-> rrSet[n].Type,
                  Algorithm   |-> algo,
                  Labels      |-> CountDomainNameLabels(rrSet[1].Name),
                  OriginalTTL |-> rrSet[n].TTL,
                  Expiration  |-> expiration,
                  Inception   |-> inception,
                  KeyTag      |-> keyTag,
                  SignerName  |-> signerName,
                  Signature   |-> << >>]
        plainLen == RDataSize("RRSIG", rrsig) + SumSizes(rrSet, 1)
        plainText == <<rrsig>> \o [i \in 1..n |-> rrSet[n + 1 - i]]
    IN [ok |-> TRUE, offset |-> plainLen, plainLen |-> plainLen,
        rrsig |-> [rrsig EXCEPT !.Signature = Sign(plainText, privKey)]]

\* GenerateRRSIG.  The plaintext is the RRSIG with an empty signature
\* followed by the records in input order.  The result has ok = FALSE when
\* the function panics: an encoding that fails, an offset that differs from
\* the computed length, a key that Sign refuses.
GenerateRRSIG(rrSet, algo, expiration, inception, keyTag, signerName, privKey) ==
    LET rrsig == [TypeCovered |-> rrSet[1].Type,
                  Algorithm   |-> algo,
                  Labels      |-> CountDomainNameLabels(rrSet[1].Name),
                  OriginalTTL |-> rrSet[1].TTL,
                  Expiration  |-> expiration,
                  Inception   |-> inception,
                  KeyTag      |-> keyTag,
                  SignerName  |-> signerName,
                  Signature   |-> << >>]
        plainLen == RDataSize("RRSIG", rrsig) + SumSizes(rrSet, 1)
        offset == EncodeRecords(rrSet, 1, RDataSize("RRSIG", rrsig), plainLen)
        plainText == <<rrsig>> \o rrSet
    IN IF offset # plainLen \/ SignFails(privKey)
       THEN [ok |-> FALSE, offset |-> offset, plainLen |-> plainLen,
             rrsig |-> rrsig]
       ELSE [ok |-> TRUE, offset |-> offset, plainLen |-> plainLen,
             rrsig |-> [rrsig EXCEPT !.Signature = Sign(plainText, privKey)]]

\* GenerateDS: key tag, algorithm, digest type and the digest of the owner
\* name followed by the key.
GenerateDS(oName, kRDATA, dType) ==
    [KeyTag |-> CalculateKeyTag(kRDATA), Algorithm |-> kRDATA.Algorithm,
     DigestType |-> dType, Digest |-> <<"digest", dType, oName, kRDATA>>]

\* The zero value of DNSSECMaterial, which a Go map returns for a key it
\* does not hold.
ZeroMat ==
    [KSKTag |-> 0, ZSKTag |-> 0, PrivateKSK |-> Nil, PrivateZSK |-> Nil,
     DNSKEYRespSec |-> << >>]

MapGet(m, z) == IF z \in DOMAIN m THEN m[z] ELSE ZeroMat
\* MapPut storing the new entry and dropping the others.
MapPutAlone(m, z, mat) == [x \in {z} |-> mat]
MapPut(m, z, mat) == [x \in DOMAIN m \cup {z} |-> IF x = z THEN mat ELSE m[x]]

\* CreateDNSSECMat putting the KSK record in front of the ZSK record.
CreateDNSSECMatKskFirst(zoneName, n, t) ==
    LET ksk == GenerateDNSKEY(cfg.dAlgo, DNSKEYFlagSecureEntryPoint,
                              KeyId(zoneName, n, DNSKEYFlagSecureEntryPoint))
        zsk == GenerateDNSKEY(cfg.dAlgo, DNSKEYFlagZoneKey,
                              KeyId(zoneName, n, DNSKEYFlagZoneKey))
        pubZskRR == RR(zoneName, "DNSKEY", 86400, zsk.rdata)
        pubKskRR == RR(zoneName, "DNSKEY", 86400, ksk.rdata)
        keySetSig == GenerateRRSIG(<<pubKskRR, pubZskRR>>, cfg.dAlgo,
                                   t + 86400 - 3600, t - 3600,
                                   CalculateKeyTag(ksk.rdata), zoneName, ksk.priv)
        sigRec == RR(zoneName, "RRSIG", 86400, keySetSig.rrsig)
    IN [KSKTag |-> CalculateKeyTag(ksk.rdata),
        ZSKTag |-> CalculateKeyTag(zsk.rdata),
        PrivateKSK |-> ksk.priv,
        PrivateZSK |-> zsk.priv,
        DNSKEYRespSec |-> <<pubKskRR, pubZskRR, sigRec>>]

\* CreateDNSSECMat for the n-th key pairs of the zone, at time t.
CreateDNSSECMat(zoneName, n, t) ==
    LET ksk == GenerateDNSKEY(cfg.dAlgo, DNSKEYFlagSecureEntryPoint,
                              KeyId(zoneName, n, DNSKEYFlagSecureEntryPoint))
        zsk == GenerateDNSKEY(cfg.dAlgo, DNSKEYFlagZoneKey,
                              KeyId(zoneName, n, DNSKEYFlagZoneKey))
        pubZskRR == RR(zoneName, "DNSKEY", 86400, zsk.rdata)
        pubKskRR == RR(zoneName, "DNSKEY", 86400, ksk.rdata)
        keySetSig == GenerateRRSIG(<<pubZskRR, pubKskRR>>, cfg.dAlgo,
                                   t + 86400 - 3600, t - 3600,
                                   CalculateKeyTag(ksk.rdata), zoneName, ksk.priv)
        sigRec == RR(zoneName, "RRSIG", 86400, keySetSig.rrsig)
    IN [KSKTag |-> CalculateKeyTag(ksk.rdata),
        ZSKTag |-> CalculateKeyTag(zsk.rdata),
        PrivateKSK |-> ksk.priv,
        PrivateZSK |-> zsk.priv,
        DNSKEYRespSec |-> <<pubZskRR, pubKskRR, sigRec>>]

(************************* DNSSECResponser.Response ************************)

\* InitResp leaving the default response's ID in place.
InitRespKeepID(q) ==
    [Header |-> [cfg.hdr EXCEPT !.QDCount = q.QDCount],
     Question |-> q.Question,
     Answer |-> << >>]

\* InitResp: the default response's header with the query's ID, QDCount and
\* question section, and an empty answer section.
InitResp(q) ==
    [Header |-> [cfg.hdr EXCEPT !.ID = q.ID, !.QDCount = q.QDCount],
     Question |-> q.Question,
     Answer |-> << >>]

NoResp == [Header |-> [ID |-> 0, AA |-> FALSE, RD |-> FALSE, RA |-> FALSE,
                       RCode |-> "none", QDCount |-> 0, ANCount |-> 0],
           Question |-> << >>, Answer |-> << >>]
NoRec == RR(Root, "none", 0, << >>)

\* A call of Response: the query, where the call is (pc), the response under
\* construction, the zone whose material it looks up, the record it signs
\* and the zones it ran CreateDNSSECMat for.
\*   pc: "lookup"    the map read of lines 232 / 292
\*       "create"    CreateDNSSECMat and the map write of lines 234 / 294
\*       "readback"  the map read of lines 235 / 295
\*       "ds_child"  the map read of line 244
\*       "ds_parent" the map read of line 256
\*       "done"      returned rInfo;  "panic"  the call panicked
IdleCall ==
    [q |-> [ID |-> 0, QDCount |-> 0, Question |-> << >>], pc |-> "idle",
     rInfo |-> NoResp, zone |-> Root, rec |-> NoRec, created |-> {}]

\* SignerOf without the special case of a parent that is the root.
SignerOfParentOnly(qName) == GetUpperDomainName(qName)

\* The signer of a record that is neither DNSKEY nor DS (lines 287-291).
SignerOf(qName) ==
    IF GetUpperDomainName(qName) = Root THEN qName ELSE GetUpperDomainName(qName)

\* Lines 224-228 and the dispatch on the query type.
StartCall(q) ==
    LET c == [IdleCall EXCEPT !.q = q, !.rInfo = InitResp(q)]
    IN IF Len(q.Question) = 0 THEN [c EXCEPT !.pc = "panic"]
       ELSE LET qType == q.Question[1].Type
                qName == q.Question[1].Name
            IN CASE qType = "DNSKEY" ->
                      [c EXCEPT !.pc = "lookup", !.zone = qName]
                 [] qType = "DS" ->
                      [c EXCEPT !.pc = "ds_child"]
                 [] OTHER ->
                      [c EXCEPT !.pc = "lookup", !.zone = SignerOf(qName),
                                !.rec = RR(qName, "A", 86400, [Address |-> cfg.IP])]

\* Lines 237-239: the DNSKEY answer.
AnswerDNSKEY(c, dnssecMat) ==
    [c EXCEPT !.pc = "done",
              !.rInfo.Answer = dnssecMat.DNSKEYRespSec,
              !.rInfo.Header.ANCount = Len(dnssecMat.DNSKEYRespSec),
              !.rInfo.Header.RCode = "NoErr"]

\* AnswerSigned leaving the default response's RCode in place.
AnswerSignedKeepRCode(c, dnssecMat, t) ==
    LET qName == c.q.Question[1].Name
        sig == GenerateRRSIG(<<c.rec>>, cfg.dAlgo, t + 86400 - 3600, t - 3600,
                             dnssecMat.ZSKTag, c.zone, dnssecMat.PrivateZSK)
        sigRec == RR(qName, "RRSIG", 86400, sig.rrsig)
    IN IF ~sig.ok THEN [c EXCEPT !.pc = "panic"]
       ELSE [c EXCEPT !.pc = "done",
                      !.rInfo.Answer = <<c.rec, sigRec>>,
                      !.rInfo.Header.ANCount = 2]

\* Lines 257-276 and 297-316: sign c.rec with the material's ZSK.
AnswerSigned(c, dnssecMat, t) ==
    LET qName == c.q.Question[1].Name
        sig == GenerateRRSIG(<<c.rec>>, cfg.dAlgo, t + 86400 - 3600, t - 3600,
                             dnssecMat.ZSKTag, c.zone, dnssecMat.PrivateZSK)
        sigRec == RR(qName, "RRSIG", 86400, sig.rrsig)
    IN IF ~sig.ok THEN [c EXCEPT !.pc = "panic"]
       ELSE [c EXCEPT !.pc = "done",
                      !.rInfo.Answer = <<c.rec, sigRec>>,
                      !.rInfo.Header.ANCount = 2,
                      !.rInfo.Header.RCode = "NoErr"]

Answer(c, dnssecMat, t) ==
    IF c.q.Question[1].Type = "DNSKEY" THEN AnswerDNSKEY(c, dnssecMat)
    ELSE AnswerSigned(c, dnssecMat, t)

\* StepLookup taking every lookup for a miss.
StepLookupAlwaysMiss(S, c, t) == [S |-> S, c |-> [c EXCEPT !.pc = "create"]]

\* dnssecMat, ok := d.DNSSECMap[zone]  (lines 232-233, 292-293)
StepLookup(S, c, t) ==
    IF c.zone \in DOMAIN S.map
    THEN [S |-> S, c |-> Answer(c, S.map[c.zone], t)]
    ELSE [S |-> S, c |-> [c EXCEPT !.pc = "create"]]

\* d.DNSSECMap[zone] = d.CreateDNSSECMat(zone)  (lines 234, 294)
StepCreate(S, c, t) ==
    LET n == S.cnt[c.zone] + 1
    IN [S |-> [map |-> MapPut(S.map, c.zone, CreateDNSSECMat(c.zone, n, t)),
               cnt |-> [S.cnt EXCEPT ![c.zone] = n]],
        c |-> [c EXCEPT !.pc = "readback", !.created = @ \cup {c.zone}]]

\* dnssecMat = d.DNSSECMap[zone]  (lines 235, 295)
StepReadback(S, c, t) ==
    [S |-> S, c |-> Answer(c, MapGet(S.map, c.zone), t)]

\* StepDSChild creating the material of qName when the map does not hold it.
StepDSChildAutoCreate(S, c, t) ==
    LET qName == c.q.Question[1].Name
        n == S.cnt[qName] + 1
        S2 == IF qName \in DOMAIN S.map THEN S
              ELSE [map |-> MapPut(S.map, qName, CreateDNSSECMat(qName, n, t)),
                    cnt |-> [S.cnt EXCEPT ![qName] = n]]
        sec == S2.map[qName].DNSKEYRespSec
    IN [S |-> S2,
        c |-> [c EXCEPT !.pc = "ds_parent",
                        !.zone = GetUpperDomainName(qName),
                        !.rec = RR(qName, "DS", 86400,
                                   GenerateDS(qName, sec[2].RData, cfg.dType))]]

\* Lines 242-255: the DS record of qName from its cached KSK, which is
\* DNSKEYRespSec[1]; the index and the type assertion panic when the entry
\* does not hold it.
StepDSChild(S, c, t) ==
    LET qName == c.q.Question[1].Name
        sec == MapGet(S.map, qName).DNSKEYRespSec
    IN IF Len(sec) < 2 \/ sec[2].Type # "DNSKEY"
       THEN [S |-> S, c |-> [c EXCEPT !.pc = "panic"]]
       ELSE [S |-> S,
             c |-> [c EXCEPT !.pc = "ds_parent",
                             !.zone = GetUpperDomainName(qName),
                             !.rec = RR(qName, "DS", 86400,
                                        GenerateDS(qName, sec[2].RData, cfg.dType))]]

\* dnssecMat := d.DNSSECMap[qSignerName]  (line 256) and the signing.
StepDSParent(S, c, t) ==
    [S |-> S, c |-> Answer(c, MapGet(S.map, c.zone), t)]

Running(c) == c.pc \in {"lookup", "create", "readback", "ds_child", "ds_parent"}

\* One step of a call.
Step(S, c, t) ==
    CASE c.pc = "lookup"    -> StepLookup(S, c, t)
      [] c.pc = "create"    -> StepCreate(S, c, t)
      [] c.pc = "readback"  -> StepReadback(S, c, t)
      [] c.pc = "ds_child"  -> StepDSChild(S, c, t)
      [] c.pc = "ds_parent" -> StepDSParent(S, c, t)
      [] OTHER              -> [S |-> S, c |-> c]

\* A whole call run from start to return or panic, with nothing in between.
RECURSIVE Run(_, _, _)
Run(S, c, t) ==
    IF Running(c) THEN LET r == Step(S, c, t) IN Run(r.S, r.c, t)
    ELSE [S |-> S, c |-> c]

(***************************** domain-name codec ***************************)

\* A name's text and its wire form are sequences of bytes.
Dot == 46

\* copy(dst[off:], src) on a 0-based offset: src over dst from off on.
CopyAt(dst, off, src) ==
    [i \in 1..Len(dst) |->
        IF off < i /\ i <= off + Len(src) THEN src[i - off] ELSE dst[i]]

\* buf[off] = b on a 0-based offset.
SetAt(buf, off, b) == [buf EXCEPT ![off + 1] = b]

Zeros(n) == [i \in 1..n |-> 0]

\* GetDomainNameWireLen without the case of the root.
GetDomainNameWireLenNoRoot(name) ==
    LET nameLength == Len(name)
    IN IF name[nameLength] = Dot THEN nameLength + 1 ELSE nameLength + 2

GetDomainNameWireLen(name) ==
    LET nameLength == Len(name)
    IN IF name[nameLength] = Dot
       THEN (IF nameLength = 1 THEN 1 ELSE nameLength + 1)
       ELSE nameLength + 2

\* The 0-based index of the first '.' at or after index, Len(name) if none.
NextDot(name, index) ==
    LET dots == {i \in index..(Len(name) - 1) : name[i + 1] = Dot}
    IN IF dots = {} THEN Len(name)
       ELSE CHOOSE i \in dots : \A j \in dots : i <= j

\* The loop of EncodeDomainName from the 0-based index on, where a label
\* starts: labelLength counts the bytes up to the next '.', where the label
\* is written with its length byte in front.  The result holds the bytes
\* counted after the last '.'.
RECURSIVE EncodeLoop(_, _, _)
EncodeLoop(name, start, byteArray) ==
    LET index == NextDot(name, start)
        labelLength == index - start
    IN IF index >= Len(name)
       THEN [byteArray |-> byteArray, labelLength |-> labelLength]
       ELSE EncodeLoop(name, index + 1,
                CopyAt(SetAt(byteArray, index - labelLength, labelLength % 256),
                       index - labelLength + 1,
                       SubSeq(name, index - labelLength + 1, index)))

\* EncodeDomainName without the label that follows the last '.'.
EncodeDomainNameSkipLast(name) ==
    LET encodedLen == GetDomainNameWireLen(name)
        r == EncodeLoop(name, 0, Zeros(encodedLen))
    IN IF encodedLen = 1 THEN <<0>> ELSE r.byteArray

EncodeDomainName(name) ==
    LET encodedLen == GetDomainNameWireLen(name)
        r == EncodeLoop(name, 0, Zeros(encodedLen))
    IN IF encodedLen = 1 THEN <<0>>
       ELSE IF r.labelLength # 0
            THEN CopyAt(SetAt(r.byteArray, encodedLen - r.labelLength - 2,
                              r.labelLength % 256),
                        encodedLen - r.labelLength - 1,
                        SubSeq(name, Len(name) - r.labelLength + 1, Len(name)))
            ELSE r.byteArray

\* EncodeDomainNameToBuffer testing the size after the labels were written.
EncodeDomainNameToBufferLateCheck(name, buffer) ==
    LET encodedLen == GetDomainNameWireLen(name)
        r == EncodeLoop(name, 0, buffer)
    IN [n |-> -1, err |-> Len(buffer) < encodedLen, buffer |-> r.byteArray]

\* EncodeDomainNameToBuffer: (-1, error) for a buffer shorter than the wire
\* length; otherwise the labels are written over the buffer's first bytes.
\* The byte after the last label is left as the buffer holds it.
EncodeDomainNameToBuffer(name, buffer) ==
    LET encodedLen == GetDomainNameWireLen(name)
        r == EncodeLoop(name, 0, buffer)
    IN IF Len(buffer) < encodedLen
       THEN [n |-> -1, err |-> TRUE, buffer |-> buffer]
       ELSE IF encodedLen = 1
       THEN [n |-> 1, err |-> FALSE, buffer |-> SetAt(buffer, 0, 0)]
       ELSE IF r.labelLength # 0
       THEN [n |-> encodedLen, err |-> FALSE,
             buffer |-> CopyAt(SetAt(r.byteArray, encodedLen - r.labelLength - 2,
                                     r.labelLength % 256),
                               encodedLen - r.labelLength - 1,
                               SubSeq(name, Len(name) - r.labelLength + 1, Len(name)))]
       ELSE [n |-> encodedLen, err |-> FALSE, buffer |-> r.byteArray]

\* Results of the decoders:  "ok" with the name (and the next offset),
\* "err" the returned error ("", -1), "panic" an index out of range,
\* "overflow" a recursion that never returns.
Ok(name, next) == [kind |-> "ok", name |-> name, next |-> next]
Err == [kind |-> "err", name |-> << >>, next |-> -1]
Panic == [kind |-> "panic", name |-> << >>, next |-> -1]
Overflow == [kind |-> "overflow", name |-> << >>, next |-> -1]

\* The loop of DecodeDomainName at the 0-based position nameLength.  The
\* slice is taken to hold no more than its length.
RECURSIVE DecodeLoop(_, _, _)
DecodeLoop(data, nameLength, name) ==
    IF nameLength >= Len(data) THEN Panic
    ELSE IF data[nameLength + 1] = 0
         THEN Ok(name, nameLength)
         ELSE LET labelLength == data[nameLength + 1]
              IN IF nameLength + 1 + labelLength > Len(data) THEN Panic
                 ELSE DecodeLoop(data, nameLength + labelLength + 1,
                          name \o SubSeq(data, nameLength + 2,
                                         nameLength + 1 + labelLength) \o <<Dot>>)

\* DecodeDomainName dropping nothing from the decoded text.
DecodeDomainNameKeepDot(data) ==
    LET r == DecodeLoop(data, 0, << >>)
    IN IF r.kind # "ok" THEN r
       ELSE IF r.next # 0 THEN Ok(r.name, -1) ELSE Ok(<<Dot>>, -1)

DecodeDomainName(data) ==
    LET r == DecodeLoop(data, 0, << >>)
    IN IF r.kind # "ok" THEN r
       ELSE IF r.next # 0 THEN Ok(SubSeq(r.name, 1, Len(r.name) - 1), -1)
            ELSE Ok(<<Dot>>, -1)

\* DecodeDomainNameFromBuffer.  At a pointer the name decoded at its target
\* is appended and the loop is left; the last byte of the text is then cut
\* off as after a label (name[:len(name)-1], which panics on an empty
\* text).  active holds the offsets of the calls that
\* have not returned: the function is deterministic, so a call at an offset
\* that is active recurses without end.
RECURSIVE DecodeFrom(_, _, _)
RECURSIVE DecodeFromLoop(_, _, _, _, _)
DecodeFromLoop(data, offset, nameLength, name, active) ==
    LET pos == offset + nameLength
    IN IF pos >= Len(data) THEN Panic
       ELSE IF data[pos + 1] = 0
       THEN (IF nameLength # 0
             THEN Ok(SubSeq(name, 1, Len(name) - 1), offset + nameLength + 1)
             ELSE Ok(<<Dot>>, offset + 1))
       ELSE LET labelLength == data[pos + 1]
            IN IF labelLength >= 192
               THEN IF pos + 1 >= Len(data) THEN Panic
                    ELSE LET pointer == (data[pos + 1] * 256 + data[pos + 2]) % 16384
                             d == DecodeFrom(data, pointer, active)
                             full == name \o d.name
                         IN IF d.kind # "ok" THEN d
                            ELSE IF Len(full) = 0 THEN Panic
                            ELSE Ok(SubSeq(full, 1, Len(full) - 1),
                                    offset + (nameLength + 1) + 1)
               ELSE IF Len(data) < offset + nameLength + labelLength + 1 THEN Err
               ELSE DecodeFromLoop(data, offset, nameLength + labelLength + 1,
                        name \o SubSeq(data, pos + 2, pos + 1 + labelLength)
                             \o <<Dot>>,
                        active)

DecodeFrom(data, offset, active) ==
    IF offset \in active THEN Overflow
    ELSE IF Len(data) < offset + 1 THEN Err
    ELSE DecodeFromLoop(data, offset, 0, << >>, active \cup {offset})

DecodeDomainNameFromBuffer(data, offset) == DecodeFrom(data, offset, {})


(***************************** character strings ***************************)

\* GetCharacterStrWireLen counting one fragment more than the full ones.
GetCharacterStrWireLenExtraFrag(cStr) ==
    LET strLen == Len(cStr)
        frags == strLen \div 255 + 1
    IN IF strLen = 0 THEN 1 ELSE strLen + frags

GetCharacterStrWireLen(cStr) ==
    LET strLen == Len(cStr)
        frags == (strLen + 254) \div 255
    IN IF strLen = 0 THEN 1 ELSE strLen + frags

\* The loop of EncodeCharacterStr: full chunks of 255 bytes while more than
\* 255 bytes are left.
RECURSIVE EncodeStrLoop(_, _, _, _)
EncodeStrLoop(cStr, rawTvlr, enTvlr, byteArray) ==
    IF rawTvlr + 255 < Len(cStr)
    THEN EncodeStrLoop(cStr, rawTvlr + 255, enTvlr + 256,
             CopyAt(SetAt(byteArray, enTvlr, 255), enTvlr + 1,
                    SubSeq(cStr, rawTvlr + 1, rawTvlr + 255)))
    ELSE [rawTvlr |-> rawTvlr, enTvlr |-> enTvlr, byteArray |-> byteArray]

EncodeCharacterStr(cStr) ==
    LET strLen == Len(cStr)
        encodedLen == GetCharacterStrWireLen(cStr)
        r == EncodeStrLoop(cStr, 0, 0, Zeros(encodedLen))
    IN IF strLen = 0 THEN <<0>>
       ELSE IF r.rawTvlr < strLen
       THEN CopyAt(SetAt(r.byteArray, r.enTvlr, (strLen - r.rawTvlr) % 256),
                   r.enTvlr + 1, SubSeq(cStr, r.rawTvlr + 1, strLen))
       ELSE r.byteArray

(***************************** the codec's inputs **************************)

\* The byte at 0-based position i of a label's text.
Letter(i) == 97 + (i % 26)

LabelLens == {1, 2, 63}
LabelLists == UNION {[1..k -> LabelLens] : k \in 1..MaxLabels}

RECURSIVE SumLens(_, _)
SumLens(lens, i) == IF i > Len(lens) THEN 0 ELSE lens[i] + 1 + SumLens(lens, i + 1)

\* The text of the labels of the given lengths, each followed by a '.'.
RECURSIVE TextOf(_, _, _)
TextOf(lens, i, start) ==
    IF i > Len(lens) THEN << >>
    ELSE [j \in 1..lens[i] |-> Letter(start + j)] \o <<Dot>>
            \o TextOf(lens, i + 1, start + lens[i] + 1)

\* Valid names: labels of 1..63 bytes, at most 255 bytes on the wire, in
\* absolute and in relative form, and the root.
ValidNames ==
    LET ok == {l \in LabelLists : SumLens(l, 1) + 1 <= 255}
        abs == {TextOf(l, 1, 0) : l \in ok}
    IN abs \cup {SubSeq(n, 1, Len(n) - 1) : n \in abs} \cup {<<Dot>>}

ByteAlphabet == {0, 1, 97, 192}
Buffers == UNION {[1..k -> ByteAlphabet] : k \in 1..MaxBufLen}

IdleCodec == [pc |-> "idle", name |-> << >>, wire |-> << >>, out |-> Err]
IdleBufdec == [pc |-> "idle", data |-> << >>, offset |-> 0, res |-> Err]

IdleToBuf == [pc |-> "idle", name |-> << >>, before |-> << >>,
              n |-> 0, err |-> FALSE, buffer |-> << >>]
IdleStr == [pc |-> "idle", str |-> << >>, len |-> 0, wire |-> << >>]
IdleTag == [pc |-> "idle", key |-> << >>, tag |-> 0]
IdleSig == [pc |-> "idle", rrSet |-> << >>, algo |-> 0, expiration |-> 0,
            inception |-> 0, keyTag |-> 0, signerName |-> Root, privKey |-> Nil,
            ok |-> FALSE, rrsig |-> << >>, offset |-> 0, plainLen |-> 0]
IdleConn == [pc |-> "idle", stream |-> << >>, buf |-> << >>, sz |-> 0,
             msgSz |-> 0, sent |-> << >>]

\* Clients of a StatefulResponser and what they send.
ClientIPs == {"10.0.0.2", "10.0.0.3"}
QueryInfos ==
    [IP : ClientIPs,
     DNS : {[ID |-> i, QDCount |-> 1, Question |-> <<Question1(T, "A")>>] :
               i \in {1, 2}}]

NoClients == [ip \in {} |-> [QueryTimes |-> 0, QueryList |-> << >>]]
NoSResp == [IP |-> "", DNS |-> NoResp]

\* A StatefulResponser with an empty ClientMap that received nothing.
IdleStateful ==
    /\ ClientMap = NoClients
    /\ arrived = [ip \in ClientIPs |-> << >>]
    /\ sResp = NoSResp

IdleAux ==
    /\ IdleStateful
    /\ tobuf = IdleToBuf
    /\ cstr = IdleStr
    /\ keytag = IdleTag
    /\ sigcall = IdleSig
    /\ conn = IdleConn

(****************************** specifications *****************************)

EmptyMap == [z \in {} |-> ZeroMat]
Shared == [map |-> DNSSECMap, cnt |-> createCount]

\* The trust anchor an operator may put into DNSSECMap when building the
\* responder (the usage example of responser.go): material made outside
\* Response, here for the zone "test".
SeededMap == [z \in {T} |-> CreateDNSSECMat(T, 0, 3600)]

InitResponser ==
    /\ cfg \in Configs
    /\ DNSSECMap \in {EmptyMap, SeededMap}
    /\ createCount = [z \in Zones |-> 0]
    /\ now = 3600
    /\ last = [call |-> IdleCall, before |-> EmptyMap,
               servedBefore |-> [z \in Zones |-> << >>]]
    /\ served = [z \in Zones |-> << >>]
    /\ crashed = FALSE
    /\ local = [t \in Threads |-> IdleCall]
    /\ codec = IdleCodec
    /\ bufdec = IdleBufdec
    /\ IdleAux

\* The first DNSKEY answer each zone got.
Serve(c) ==
    IF c.pc = "done" /\ c.q.Question[1].Type = "DNSKEY" /\ served[c.zone] = << >>
    THEN [served EXCEPT ![c.zone] = c.rInfo.Answer]
    ELSE served

\* One call of DNSSECResponser.Response, alone from start to end.  A panic
\* aborts the process.
Response(q) ==
    /\ ~crashed
    /\ LET r == Run(Shared, StartCall(q), now)
       IN /\ DNSSECMap' = r.S.map
          /\ createCount' = r.S.cnt
          /\ last' = [call |-> r.c, before |-> DNSSECMap, servedBefore |-> served]
          /\ served' = Serve(r.c)
          /\ crashed' = (r.c.pc = "panic")
    /\ UNCHANGED <<cfg, now, local, codecVars, auxVars>>

\* Time passes between calls.
Tick ==
    /\ ~crashed
    /\ now < 3600 + MaxClock
    /\ now' = now + 1
    /\ UNCHANGED <<cfg, DNSSECMap, createCount, last, served, crashed, local, codecVars, auxVars>>

Init == InitResponser

Next ==
    \/ \E q \in Queries : Response(q)
    \/ Tick

Spec == Init /\ [][Next]_vars

\* Response calls running concurrently, one goroutine each, sharing
\* DNSSECMap without a lock: each map access is a step of its own.
InitConc ==
    /\ InitResponser
    /\ cfg.hdr.AA /\ cfg.dAlgo = 8
    /\ DNSSECMap = EmptyMap

Begin(t, q) ==
    /\ ~crashed
    /\ local[t].pc \in {"idle", "done"}
    /\ local' = [local EXCEPT ![t] = StartCall(q)]
    /\ UNCHANGED <<cfg, DNSSECMap, createCount, now, last, served, crashed, codecVars, auxVars>>

ThreadStep(t) ==
    /\ ~crashed
    /\ Running(local[t])
    /\ LET r == Step(Shared, local[t], now)
       IN /\ DNSSECMap' = r.S.map
          /\ createCount' = r.S.cnt
          /\ local' = [local EXCEPT ![t] = r.c]
          /\ crashed' = (r.c.pc = "panic")
    /\ UNCHANGED <<cfg, now, last, served, codecVars, auxVars>>

\* A map write overlapping another goroutine's map access is a data race;
\* the Go runtime may detect it and abort the process ("fatal error:
\* concurrent map writes"), or the accesses take effect one after the other.
RaceFatal(t, u) ==
    /\ ~crashed
    /\ t # u
    /\ local[t].pc = "create"
    /\ Running(local[u])
    /\ crashed' = TRUE
    /\ UNCHANGED <<cfg, DNSSECMap, createCount, now, last, served, local, codecVars, auxVars>>

NextConc ==
    \/ \E t \in Threads, q \in ConcQueries : Begin(t, q)
    \/ \E t \in Threads : ThreadStep(t)
    \/ \E t, u \in Threads : RaceFatal(t, u)

SpecConc == InitConc /\ [][NextConc]_vars

\* EncodeDomainName applied to a valid name, DecodeDomainName to the result.
InitName ==
    /\ cfg \in {c \in Configs : c.hdr.AA /\ c.dAlgo = 8}
    /\ DNSSECMap = EmptyMap
    /\ createCount = [z \in Zones |-> 0]
    /\ now = 3600
    /\ last = [call |-> IdleCall, before |-> EmptyMap,
               servedBefore |-> [z \in Zones |-> << >>]]
    /\ served = [z \in Zones |-> << >>]
    /\ crashed = FALSE
    /\ local = [t \in Threads |-> IdleCall]
    /\ codec \in {[IdleCodec EXCEPT !.pc = "input", !.name = n] : n \in ValidNames}
    /\ bufdec = IdleBufdec
    /\ IdleAux

EncodeName ==
    /\ codec.pc = "input"
    /\ codec' = [codec EXCEPT !.pc = "encoded", !.wire = EncodeDomainName(codec.name)]
    /\ UNCHANGED <<respVars, bufdec, auxVars>>

DecodeName ==
    /\ codec.pc = "encoded"
    /\ codec' = [codec EXCEPT !.pc = "decoded", !.out = DecodeDomainName(codec.wire)]
    /\ UNCHANGED <<respVars, bufdec, auxVars>>

NextName ==
    \/ EncodeName
    \/ DecodeName

SpecName == InitName /\ [][NextName]_vars

\* DecodeDomainNameFromBuffer applied to a buffer at an offset.
InitBuf ==
    /\ cfg \in {c \in Configs : c.hdr.AA /\ c.dAlgo = 8}
    /\ DNSSECMap = EmptyMap
    /\ createCount = [z \in Zones |-> 0]
    /\ now = 3600
    /\ last = [call |-> IdleCall, before |-> EmptyMap,
               servedBefore |-> [z \in Zones |-> << >>]]
    /\ served = [z \in Zones |-> << >>]
    /\ crashed = FALSE
    /\ local = [t \in Threads |-> IdleCall]
    /\ codec = IdleCodec
    /\ bufdec \in {[IdleBufdec EXCEPT !.pc = "input", !.data = d, !.offset = o] :
                      d \in Buffers, o \in 0..MaxBufLen}
    /\ bufdec.offset <= Len(bufdec.data)
    /\ IdleAux

DecodeFromBuffer ==
    /\ bufdec.pc = "input"
    /\ bufdec' = [bufdec EXCEPT !.pc = "done",
                     !.res = DecodeDomainNameFromBuffer(bufdec.data, bufdec.offset)]
    /\ UNCHANGED <<respVars, codec, auxVars>>

NextBuf == DecodeFromBuffer

SpecBuf == InitBuf /\ [][NextBuf]_vars

\* The responder at rest, for the specifications of the pure functions.
IdleResponser ==
    /\ IdleStateful
    /\ cfg \in {c \in Configs : c.hdr.AA /\ c.dAlgo = 8}
    /\ DNSSECMap = EmptyMap
    /\ createCount = [z \in Zones |-> 0]
    /\ now = 3600
    /\ last = [call |-> IdleCall, before |-> EmptyMap,
               servedBefore |-> [z \in Zones |-> << >>]]
    /\ served = [z \in Zones |-> << >>]
    /\ crashed = FALSE
    /\ local = [t \in Threads |-> IdleCall]
    /\ codec = IdleCodec
    /\ bufdec = IdleBufdec

\* The lengths of the buffers tried for a name of wire length wl: none, one
\* byte, half, one byte short, exact, one byte more.
BufLensFor(wl) == {k \in {0, 1, wl \div 2, wl - 1, wl, wl + 1} : k >= 0}

\* A buffer of n bytes that holds data of an earlier use.
UsedBuffer(n) == [i \in 1..n |-> 255]

\* EncodeDomainNameToBuffer applied to a valid name and a buffer.
InitToBuf ==
    /\ IdleResponser
    /\ tobuf \in {[IdleToBuf EXCEPT !.pc = "input", !.name = nm,
                                    !.before = UsedBuffer(k)] :
                     nm \in ValidNames, k \in 0..257}
    /\ Len(tobuf.before) \in BufLensFor(GetDomainNameWireLen(tobuf.name))
    /\ cstr = IdleStr
    /\ keytag = IdleTag
    /\ sigcall = IdleSig
    /\ conn = IdleConn

EncodeNameToBuffer ==
    /\ tobuf.pc = "input"
    /\ LET r == EncodeDomainNameToBuffer(tobuf.name, tobuf.before)
       IN tobuf' = [tobuf EXCEPT !.pc = "done", !.n = r.n, !.err = r.err,
                                 !.buffer = r.buffer]
    /\ UNCHANGED <<respVars, codecVars, cstr, keytag, sigcall, conn, statefulVars>>

NextToBuf == EncodeNameToBuffer

SpecToBuf == InitToBuf /\ [][NextToBuf]_vars

\* The character string of n bytes.
StringOf(n) == [i \in 1..n |-> Letter(i)]

\* GetCharacterStrWireLen and EncodeCharacterStr applied to a string.
InitStr ==
    /\ IdleResponser
    /\ tobuf = IdleToBuf
    /\ cstr \in {[IdleStr EXCEPT !.pc = "input", !.str = StringOf(n)] :
                    n \in 0..MaxStrLen}
    /\ keytag = IdleTag
    /\ sigcall = IdleSig
    /\ conn = IdleConn

EncodeStr ==
    /\ cstr.pc = "input"
    /\ cstr' = [cstr EXCEPT !.pc = "done",
                            !.len = GetCharacterStrWireLen(cstr.str),
                            !.wire = EncodeCharacterStr(cstr.str)]
    /\ UNCHANGED <<respVars, codecVars, tobuf, keytag, sigcall, conn, statefulVars>>

NextStr == EncodeStr

SpecStr == InitStr /\ [][NextStr]_vars

\* DNSKEY RDATA given to CalculateKeyTag: both flags, both algorithms and
\* public keys of low and high bytes.
KeyBytes == {0, 1, 255}
TagKeys ==
    [Flags : {DNSKEYFlagZoneKey, DNSKEYFlagSecureEntryPoint},
     Protocol : {DNSKEYProtocolValue},
     Algorithm : {8, 13},
     PublicKey : UNION {[1..k -> KeyBytes] : k \in 0..MaxKeyLen}]

InitTag ==
    /\ IdleResponser
    /\ tobuf = IdleToBuf
    /\ cstr = IdleStr
    /\ keytag \in {[IdleTag EXCEPT !.pc = "input", !.key = k] : k \in TagKeys}
    /\ sigcall = IdleSig
    /\ conn = IdleConn

KeyTag ==
    /\ keytag.pc = "input"
    /\ keytag' = [keytag EXCEPT !.pc = "done", !.tag = CalculateKeyTag(keytag.key)]
    /\ UNCHANGED <<respVars, codecVars, tobuf, cstr, sigcall, conn, statefulVars>>

NextTag == KeyTag

SpecTag == InitTag /\ [][NextTag]_vars

\* Records given to GenerateRRSIG: of different owners, types and TTLs.
SigRecords ==
    {RR(T, "A", 86400, [Address |-> "10.0.0.1"]),
     RR(A_T, "A", 3600, [Address |-> "10.0.0.2"]),
     RR(W_A_T, "DNSKEY", 300,
        GenerateDNSKEY(13, DNSKEYFlagZoneKey, 1).rdata)}
SigSets == UNION {[1..k -> SigRecords] : k \in 1..MaxSet}

\* GenerateRRSIG applied to a non-empty record list and a key that the
\* algorithm accepts.
InitSig ==
    /\ IdleResponser
    /\ tobuf = IdleToBuf
    /\ cstr = IdleStr
    /\ keytag = IdleTag
    /\ sigcall \in {[IdleSig EXCEPT !.pc = "input", !.rrSet = rs, !.algo = al,
                                    !.expiration = 90000, !.inception = in,
                                    !.keyTag = kt, !.signerName = sn,
                                    !.privKey = <<"priv", k>>] :
                       rs \in SigSets, al \in {8, 13}, in \in {0, 3600},
                       kt \in {1, 65535}, sn \in {Root, T}, k \in {1, 2}}
    /\ conn = IdleConn

Sig ==
    /\ sigcall.pc = "input"
    /\ LET r == GenerateRRSIG(sigcall.rrSet, sigcall.algo, sigcall.expiration,
                              sigcall.inception, sigcall.keyTag,
                              sigcall.signerName, sigcall.privKey)
       IN sigcall' = [sigcall EXCEPT !.pc = "done", !.ok = r.ok, !.rrsig = r.rrsig,
                                     !.offset = r.offset, !.plainLen = r.plainLen]
    /\ UNCHANGED <<respVars, codecVars, tobuf, cstr, keytag, conn, statefulVars>>

NextSig == Sig

SpecSig == InitSig /\ [][NextSig]_vars

\* Netter.Config.MTU: room for the longest message and its length prefix.
MTU == MaxBody + 2

\* What a client writes on a TCP connection: the length of the message body
\* as two bytes, big-endian, and the body.
Bodies == UNION {[1..k -> {1, 2}] : k \in 1..MaxBody}
StreamOf(body) == <<Len(body) \div 256, Len(body) % 256>> \o body

\* conn.Read(b) having returned k bytes: the next k bytes of the stream are
\* in b, which starts at the 0-based position at of buf.
ReadInto(buf, at, stream, k) == CopyAt(buf, at, SubSeq(stream, at + 1, at + k))

\* A connection was accepted; handleStreamConn allocates buf.  The client's
\* bytes arrive in pieces of any size.
InitStream ==
    /\ IdleResponser
    /\ tobuf = IdleToBuf
    /\ cstr = IdleStr
    /\ keytag = IdleTag
    /\ sigcall = IdleSig
    /\ conn \in {[IdleConn EXCEPT !.pc = "read", !.stream = StreamOf(b),
                                  !.buf = Zeros(MTU)] : b \in Bodies}

\* The first conn.Read (line 98) returns k bytes; msgSz is taken from the
\* first two bytes of buf (line 104).
ReadFirst(k) ==
    /\ conn.pc = "read"
    /\ k \in 1..Len(conn.stream)
    /\ LET buf == ReadInto(conn.buf, 0, conn.stream, k)
       IN conn' = [conn EXCEPT !.pc = "loop", !.buf = buf, !.sz = k,
                               !.msgSz = buf[1] * 256 + buf[2]]
    /\ UNCHANGED <<respVars, codecVars, tobuf, cstr, keytag, sigcall, statefulVars>>

\* The loop of lines 105-112: while sz < msgSz another conn.Read returns k
\* of the bytes that have not been read.
ReadMore(k) ==
    /\ conn.pc = "loop"
    /\ conn.sz < conn.msgSz
    /\ k \in 1..(Len(conn.stream) - conn.sz)
    /\ conn' = [conn EXCEPT !.buf = ReadInto(conn.buf, conn.sz, conn.stream, k),
                            !.sz = conn.sz + k]
    /\ UNCHANGED <<respVars, codecVars, tobuf, cstr, keytag, sigcall, statefulVars>>

\* Lines 114-121: the loop is left, buf[2:2+msgSz] is copied into the packet
\* sent on connChan.
Deliver ==
    /\ conn.pc = "loop"
    /\ ~(conn.sz < conn.msgSz)
    /\ conn' = [conn EXCEPT !.pc = "sent",
                            !.sent = <<SubSeq(conn.buf, 3, 2 + conn.msgSz)>>]
    /\ UNCHANGED <<respVars, codecVars, tobuf, cstr, keytag, sigcall, statefulVars>>

NextStream ==
    \/ \E k \in 1..MTU : ReadFirst(k)
    \/ \E k \in 1..MTU : ReadMore(k)
    \/ Deliver

SpecStream == InitStream /\ [][NextStream]_vars

\* RegisterClient: a client's first query makes its entry, with QueryTimes 1
\* and an empty QueryList; a later query is counted and appended.
RegisterClient(m, qInfo) ==
    LET qIP == qInfo.IP
    IN IF qIP \notin DOMAIN m
       THEN [ip \in DOMAIN m \cup {qIP} |->
                IF ip = qIP THEN [QueryTimes |-> 1, QueryList |-> << >>]
                ELSE m[ip]]
       ELSE [m EXCEPT ![qIP] =
                [QueryTimes |-> m[qIP].QueryTimes + 1,
                 QueryList |-> Append(m[qIP].QueryList, qInfo)]]

\* StatefulResponser.InitResp: the default response addressed to the
\* client, with the query's ID, QDCount and question section.
StatefulInitResp(qInfo) == [IP |-> qInfo.IP, DNS |-> InitResp(qInfo.DNS)]

InitStateful ==
    /\ IdleResponser
    /\ tobuf = IdleToBuf
    /\ cstr = IdleStr
    /\ keytag = IdleTag
    /\ sigcall = IdleSig
    /\ conn = IdleConn

\* StatefulResponser.Response: RegisterClient, then InitResp.
StatefulResponse(qInfo) ==
    /\ \A ip \in ClientIPs : Len(arrived[ip]) < MaxArrivals
    /\ ClientMap' = RegisterClient(ClientMap, qInfo)
    /\ arrived' = [arrived EXCEPT ![qInfo.IP] = Append(@, qInfo)]
    /\ sResp' = StatefulInitResp(qInfo)
    /\ UNCHANGED <<respVars, codecVars, tobuf, cstr, keytag, sigcall, conn>>

NextStateful == \E qInfo \in QueryInfos : StatefulResponse(qInfo)

SpecStateful == InitStateful /\ [][NextStateful]_vars

(********************************* claims **********************************)

LastType == last.call.q.Question[1].Type
LastName == last.call.q.Question[1].Name
LastAnswer == last.call.rInfo.Answer
LastHeader == last.call.rInfo.Header
Asked == last.call.pc \in {"done", "panic"} /\ Len(last.call.q.Question) > 0
Answered == last.call.pc = "done"

\* The ZSK with which a finished call answered: the key of a DNSKEY answer's
\* first record, or the key that made the answer's signature.
ZskUsed(c) ==
    IF c.q.Question[1].Type = "DNSKEY"
    THEN c.rInfo.Answer[1].RData.PublicKey[1]
    ELSE c.rInfo.Answer[2].RData.Signature.key[2]

\* C1: when Response calls that need the same zone's material run
\* concurrently, CreateDNSSECMat runs at most once per zone and the calls
\* that found the zone missing answer from the same key material.
C1_OneMaterializationPerZone ==
    /\ \A z \in Zones : createCount[z] <= 1
    /\ \A t, u \in Threads :
          (/\ local[t].pc = "done" /\ local[u].pc = "done"
           /\ local[t].zone = local[u].zone
           /\ local[t].created # {} /\ local[u].created # {})
          => ZskUsed(local[t]) = ZskUsed(local[u])

\* [ZSK DNSKEY, KSK DNSKEY, RRSIG], all owned by z.
IsKeySet(ans, z) ==
    /\ Len(ans) = 3
    /\ \A i \in 1..3 : ans[i].Name = z
    /\ ans[1].Type = "DNSKEY" /\ ans[1].RData.Flags = DNSKEYFlagZoneKey
    /\ ans[2].Type = "DNSKEY" /\ ans[2].RData.Flags = DNSKEYFlagSecureEntryPoint
    /\ ans[3].Type = "RRSIG"

\* C2: a DNSKEY query for a zone with no entry creates the entry and returns
\* its three records (ZSK, KSK, RRSIG) with ANCount 3 and no-error; a DNSKEY
\* query for a zone that a DNSKEY query was answered for before returns the
\* records of that first answer and does not run CreateDNSSECMat.
C2_DNSKEYCreatedOnceThenCached ==
    (Asked /\ LastType = "DNSKEY") =>
        /\ Answered
        /\ LastHeader.RCode = "NoErr"
        /\ LastName \notin DOMAIN last.before =>
              /\ LastName \in DOMAIN DNSSECMap
              /\ last.call.created = {LastName}
              /\ createCount[LastName] = 1
              /\ LastAnswer = DNSSECMap[LastName].DNSKEYRespSec
              /\ IsKeySet(LastAnswer, LastName)
              /\ LastHeader.ANCount = 3
        /\ last.servedBefore[LastName] # << >> =>
              /\ LastAnswer = last.servedBefore[LastName]
              /\ last.call.created = {}
              /\ DNSSECMap = last.before

\* A DNSKEY query answered from the cache for a zone that Response created
\* and already answered a DNSKEY query for, at a later time than the creation.
C2_Witness ==
    /\ Answered /\ LastType = "DNSKEY"
    /\ createCount[LastName] = 1
    /\ last.servedBefore[LastName] # << >>
    /\ LastAnswer[3].RData.Inception < now - 3600

\* C3: an entry of DNSSECMap is never removed and never replaced: every step
\* keeps every entry the map holds.
C3_EntriesPermanent ==
    [][\A z \in DOMAIN DNSSECMap :
          z \in DOMAIN DNSSECMap' /\ DNSSECMap'[z] = DNSSECMap[z]]_vars

\* A query added an entry to a map that held another entry.
C3_Witness ==
    /\ Answered
    /\ last.call.created # {}
    /\ DOMAIN last.before # {}
    /\ DOMAIN DNSSECMap = DOMAIN last.before \cup last.call.created

\* C4: a DS query for a name whose material exists leaves the parent zone in
\* the cache and answers [DS, RRSIG], the RRSIG made with the parent's
\* cached ZSK, carrying its tag and naming the parent, with ANCount 2.
C4_DSSignedByParent ==
    (Asked /\ LastType = "DS" /\ LastName \in DOMAIN last.before) =>
        LET parent == IF Len(LastName) <= 1 THEN Root ELSE Tail(LastName)
        IN /\ parent \in DOMAIN DNSSECMap
           /\ Answered
           /\ Len(LastAnswer) = 2 /\ LastHeader.ANCount = 2
           /\ LastAnswer[1].Type = "DS" /\ LastAnswer[1].Name = LastName
           /\ LastAnswer[2].Type = "RRSIG"
           /\ LastAnswer[2].RData.Signature.key = DNSSECMap[parent].PrivateZSK
           /\ LastAnswer[2].RData.KeyTag = DNSSECMap[parent].ZSKTag
           /\ LastAnswer[2].RData.SignerName = parent

\* C5: a DS query for a name with no entry fails: it returns no response
\* and creates no entry for the name.
C5_DSWithoutChildFails ==
    (Asked /\ LastType = "DS" /\ LastName \notin DOMAIN last.before) =>
        /\ last.call.pc = "panic"
        /\ LastAnswer = << >>
        /\ LastName \notin DOMAIN DNSSECMap
        /\ DNSSECMap = last.before

\* A DS query for a name with no entry, while its parent had one.
C5_Witness ==
    /\ Asked /\ LastType = "DS"
    /\ LastName \notin DOMAIN last.before
    /\ Len(LastName) > 1 /\ Tail(LastName) \in DOMAIN last.before

\* C6: a query of another type than DNSKEY and DS is signed by the parent of
\* its name, or by the name itself when the parent is the root; the
\* signer's material is created if absent and the answer is the A record
\* of the name with the server's IP and the RRSIG over it made with the
\* signer's ZSK, with ANCount 2.
C6_OtherSignedBySigner ==
    (Asked /\ LastType \notin {"DNSKEY", "DS"}) =>
        LET signer == IF Len(LastName) = 1 THEN LastName ELSE Tail(LastName)
            aRec == [Name |-> LastName, Type |-> "A", Class |-> "IN",
                     TTL |-> 86400, RData |-> [Address |-> cfg.IP]]
        IN /\ Answered
           /\ signer \in DOMAIN DNSSECMap
           /\ last.call.created =
                 (IF signer \in DOMAIN last.before THEN {} ELSE {signer})
           /\ Len(LastAnswer) = 2 /\ LastHeader.ANCount = 2
           /\ LastAnswer[1] = aRec
           /\ LastAnswer[2].Type = "RRSIG" /\ LastAnswer[2].Name = LastName
           /\ LastAnswer[2].RData.TypeCovered = "A"
           /\ LastAnswer[2].RData.Signature.signed[2] = aRec
           /\ LastAnswer[2].RData.Signature.key = DNSSECMap[signer].PrivateZSK
           /\ LastAnswer[2].RData.KeyTag = DNSSECMap[signer].ZSKTag
           /\ LastAnswer[2].RData.SignerName = signer

\* A TXT query for a name under the root, which created its own material.
C6_Witness ==
    /\ Answered /\ LastType = "TXT"
    /\ Len(LastName) = 1
    /\ last.call.created = {LastName}

\* C7: a response carries the query's ID, QDCount and question section, and
\* its ANCount is the number of records of its answer section.
C7_QueryEchoedAndCounted ==
    Answered =>
        /\ LastHeader.ID = last.call.q.ID
        /\ LastHeader.QDCount = last.call.q.QDCount
        /\ last.call.rInfo.Question = last.call.q.Question
        /\ LastHeader.ANCount = Len(LastAnswer)

\* The answer to the query that has two questions.
C7_Witness ==
    /\ Answered
    /\ last.call.q.QDCount = 2 /\ Len(last.call.rInfo.Question) = 2
    /\ LastHeader.ANCount = 3

\* C8 as stated: every response has AA true, RD false, RA false and the
\* response code no-error, whatever the default response.
C8_FlagsFixed ==
    Answered =>
        /\ LastHeader.AA /\ ~LastHeader.RD /\ ~LastHeader.RA
        /\ LastHeader.RCode = "NoErr"

\* C8 amended: every response has the response code no-error, and the AA,
\* RD and RA flags of the configured default response.
C8_FlagsFromDefault ==
    Answered =>
        /\ LastHeader.RCode = "NoErr"
        /\ LastHeader.AA = cfg.hdr.AA
        /\ LastHeader.RD = cfg.hdr.RD
        /\ LastHeader.RA = cfg.hdr.RA

\* A signed answer under a default response that is not authoritative and
\* has another response code.
C8_Witness ==
    /\ Answered /\ LastType = "A"
    /\ ~cfg.hdr.AA /\ cfg.hdr.RCode # "NoErr"


\* The relative form of a name's text: without the trailing '.', the root
\* staying ".".
RelativeForm(name) ==
    IF name = <<Dot>> THEN name
    ELSE IF name[Len(name)] = Dot THEN SubSeq(name, 1, Len(name) - 1)
    ELSE name

\* C9: for every valid name, in absolute or relative form,
\* DecodeDomainName(EncodeDomainName(N)) is N without the trailing dot, and
\* "." for the root.
C9_DecodeEncodeRoundTrip ==
    codec.pc = "decoded" =>
        codec.out.kind = "ok" /\ codec.out.name = RelativeForm(codec.name)

\* The round trip of an absolute name of several labels, one of 63 bytes.
C9_Witness ==
    /\ codec.pc = "decoded"
    /\ Len(codec.name) > 64 /\ codec.name[Len(codec.name)] = Dot
    /\ codec.name[2] = Dot
    /\ Len(codec.wire) = Len(codec.name) + 1

\* The labels from the 0-based position pos up to a compression pointer:
\* their text, each label followed by a '.', and the position of the
\* pointer; ok is FALSE when no pointer ends the labels inside the buffer.
RECURSIVE LabelsToPointer(_, _, _)
LabelsToPointer(data, pos, text) ==
    IF pos >= Len(data) THEN [ok |-> FALSE, text |-> text, at |-> pos]
    ELSE LET b == data[pos + 1]
         IN IF b >= 192
            THEN [ok |-> pos + 1 < Len(data), text |-> text, at |-> pos]
            ELSE IF b = 0 \/ b > 63 \/ pos + b >= Len(data)
            THEN [ok |-> FALSE, text |-> text, at |-> pos]
            ELSE LabelsToPointer(data, pos + b + 1,
                     text \o SubSeq(data, pos + 2, pos + 1 + b) \o <<Dot>>)

\* C10: for labels followed by a pointer to offset p, where a complete name
\* is decoded, DecodeDomainNameFromBuffer returns the labels joined by dots
\* with the name decoded at p appended, and the offset 2 bytes past the
\* pointer's first byte.
C10_PointerNameAppended ==
    bufdec.pc = "done" =>
        LET l == LabelsToPointer(bufdec.data, bufdec.offset, << >>)
            p == ((bufdec.data[l.at + 1] * 256 + bufdec.data[l.at + 2]) % 16384)
            atP == DecodeDomainNameFromBuffer(bufdec.data, p)
        IN (l.ok /\ atP.kind = "ok") =>
              /\ bufdec.res.kind = "ok"
              /\ bufdec.res.name = l.text \o atP.name
              /\ bufdec.res.next = l.at + 2

\* Whether the buffer ends, on the way from the 0-based position pos, before
\* a declared label, before the terminating zero byte or before the second
\* byte of a compression pointer.
RECURSIVE TruncatedFrom(_, _)
TruncatedFrom(data, pos) ==
    IF pos >= Len(data) THEN TRUE
    ELSE LET b == data[pos + 1]
         IN IF b = 0 THEN FALSE
            ELSE IF b >= 192 THEN pos + 1 >= Len(data)
            ELSE IF pos + b >= Len(data) THEN TRUE
            ELSE TruncatedFrom(data, pos + b + 1)

\* C11: for a buffer that ends before a declared label, before the
\* terminating zero byte or before the second byte of a pointer,
\* DecodeDomainNameFromBuffer returns the error ("", -1) and reads no byte
\* past the end of the buffer.
C11_TruncationIsError ==
    (bufdec.pc = "done" /\ TruncatedFrom(bufdec.data, bufdec.offset)) =>
        bufdec.res = Err

\* The absolute form of a name's text: with the trailing '.'.
AbsoluteForm(name) ==
    IF name[Len(name)] = Dot THEN name ELSE name \o <<Dot>>

\* The other textual form of a name: relative for absolute and the reverse.
OtherForm(name) ==
    IF name = <<Dot>> THEN name
    ELSE IF name[Len(name)] = Dot THEN SubSeq(name, 1, Len(name) - 1)
    ELSE name \o <<Dot>>

\* The length of the label that starts after position i of the absolute
\* text abs (i = 0, or the position of a '.'); 0 after the last '.'.
LabelLenAfter(abs, i) ==
    IF i >= Len(abs) THEN 0
    ELSE (CHOOSE j \in (i + 1)..Len(abs) :
              abs[j] = Dot /\ \A k \in (i + 1)..(j - 1) : abs[k] # Dot) - i - 1

\* wire is the wire form of name: every label preceded by its length byte,
\* in order, then one zero byte.
IsWireForm(name, wire) ==
    LET abs == AbsoluteForm(name)
    IN IF name = <<Dot>> THEN wire = <<0>>
       ELSE /\ Len(wire) = Len(abs) + 1
            /\ wire[1] = LabelLenAfter(abs, 0)
            /\ \A i \in 1..Len(abs) :
                  wire[i + 1] = (IF abs[i] = Dot THEN LabelLenAfter(abs, i)
                                 ELSE abs[i])

\* C12: for every valid name EncodeDomainName returns, for the relative and
\* for the absolute form alike, each label preceded by its one-byte length,
\* in order, followed by a single zero byte; the root encodes to <<0>>.
C12_EncodeIsLabelWire ==
    codec.pc \in {"encoded", "decoded"} =>
        /\ IsWireForm(codec.name, codec.wire)
        /\ codec.wire = EncodeDomainName(OtherForm(codec.name))

\* The encoding of a relative name of several labels, the last of 63 bytes.
C12_Witness ==
    /\ codec.pc = "encoded"
    /\ Len(codec.name) > 64
    /\ codec.name[Len(codec.name)] # Dot
    /\ codec.name[2] = Dot
    /\ codec.wire[1] = 1
    /\ codec.wire[Len(codec.wire) - 64] = 63

\* C13: GetDomainNameWireLen is 1 for the root, the text length + 1 for an
\* absolute name and the text length + 2 for a relative name, and it is the
\* number of bytes EncodeDomainName returns.
C13_WireLenIsEncodedLen ==
    codec.pc \in {"encoded", "decoded"} =>
        LET n == codec.name
            wl == GetDomainNameWireLen(n)
        IN /\ wl = (IF n = <<Dot>> THEN 1
                    ELSE IF n[Len(n)] = Dot THEN Len(n) + 1
                    ELSE Len(n) + 2)
           /\ wl = Len(codec.wire)
           /\ codec.wire[Len(codec.wire)] = 0

\* The root, and a relative name of the longest wire form.
C13_Witness ==
    /\ codec.pc = "encoded"
    /\ \/ codec.name = <<Dot>> /\ codec.wire = <<0>>
       \/ codec.name[Len(codec.name)] # Dot /\ Len(codec.wire) > 250

\* The wire length of a valid name: a length byte and the bytes of every
\* label, and the zero byte.
WireLenOf(name) ==
    IF name = <<Dot>> THEN 1 ELSE Len(AbsoluteForm(name)) + 1

\* C14: EncodeDomainNameToBuffer given a buffer shorter than the name's wire
\* length returns (-1, error) and leaves every byte of the buffer as it was.
C14_SmallBufferUntouched ==
    (tobuf.pc = "done" /\ Len(tobuf.before) < WireLenOf(tobuf.name)) =>
        /\ tobuf.n = -1
        /\ tobuf.err
        /\ tobuf.buffer = tobuf.before

\* A name of several labels refused for a buffer one byte short.
C14_Witness ==
    /\ tobuf.pc = "done"
    /\ Len(tobuf.name) > 3
    /\ Len(tobuf.before) = WireLenOf(tobuf.name) - 1
    /\ tobuf.err

\* The number of chunks of at most 255 bytes a string of l bytes is cut into.
ChunksOf(l) == l \div 255 + (IF l % 255 = 0 THEN 0 ELSE 1)

\* C15: for a string of length L, GetCharacterStrWireLen is 1 when L = 0
\* and L + ceil(L/255) otherwise, and EncodeCharacterStr returns that many
\* bytes: the string in consecutive chunks of at most 255 bytes, each chunk
\* preceded by its length byte; the empty string gives <<0>>.
C15_CharacterStrChunks ==
    cstr.pc = "done" =>
        LET l == Len(cstr.str)
        IN /\ cstr.len = (IF l = 0 THEN 1 ELSE l + ChunksOf(l))
           /\ Len(cstr.wire) = cstr.len
           /\ l = 0 => cstr.wire = <<0>>
           /\ \A c \in 0..(ChunksOf(l) - 1) :
                 LET size == IF l - 255 * c > 255 THEN 255 ELSE l - 255 * c
                 IN /\ cstr.wire[256 * c + 1] = size
                    /\ \A j \in 1..size :
                          cstr.wire[256 * c + 1 + j] = cstr.str[255 * c + j]

\* The string of 300 bytes: a chunk of 255, a chunk of 45, 302 bytes.
C15_Witness ==
    /\ cstr.pc = "done"
    /\ Len(cstr.str) = 300
    /\ cstr.len = 302
    /\ cstr.wire[1] = 255 /\ cstr.wire[257] = 45

\* The sum of the first n bytes taken as big-endian 16-bit words: the bytes
\* at even 0-based indexes are high bytes, a last byte without a partner
\* too.
RECURSIVE WordSum(_, _)
WordSum(bytes, n) ==
    IF n = 0 THEN 0
    ELSE WordSum(bytes, n - 1)
            + (IF n % 2 = 1 THEN bytes[n] * 256 ELSE bytes[n])

\* The reference key tag of RFC 4034, appendix B.
ReferenceKeyTag(bytes) ==
    LET ac == WordSum(bytes, Len(bytes))
    IN (ac + ((ac \div 65536) % 65536)) % 65536

\* C16: CalculateKeyTag of a DNSKEY RDATA is the reference key tag of its
\* bytes: the words summed, the high 16 bits of the sum added once, the low
\* 16 bits returned.
C16_KeyTagIsReference ==
    keytag.pc = "done" =>
        /\ keytag.tag = ReferenceKeyTag(DNSKEYEncode(keytag.key))
        /\ keytag.tag \in 0..65535

\* A key whose word sum exceeds 16 bits, with a last byte without a partner.
C16_Witness ==
    /\ keytag.pc = "done"
    /\ Len(keytag.key.PublicKey) % 2 = 1
    /\ WordSum(DNSKEYEncode(keytag.key), Len(DNSKEYEncode(keytag.key))) > 65535
    /\ keytag.key.PublicKey[Len(keytag.key.PublicKey)] = 255

\* The bytes an encoded record takes: owner, 10 bytes of type, class, TTL
\* and RDATA length, and the RDATA.
WireSizeOf(rr) == NameWireLen(rr.Name) + 10 + RDataSize(rr.Type, rr.RData)

RECURSIVE TotalWireSize(_)
TotalWireSize(rrSet) ==
    IF rrSet = << >> THEN 0 ELSE WireSizeOf(Head(rrSet)) + TotalWireSize(Tail(rrSet))

\* C17: GenerateRRSIG on a non-empty record list returns an RRSIG with the
\* first record's type and TTL, the label count of the first record's owner,
\* and the arguments as Algorithm, Expiration, Inception, KeyTag and
\* SignerName; what is signed is the RRSIG with an empty signature followed
\* by the records in input order, and the final offset is the sum of the
\* sizes.
C17_RRSIGFieldsAndPlaintext ==
    sigcall.pc = "done" =>
        LET first == sigcall.rrSet[1]
            sig == sigcall.rrsig
        IN /\ sigcall.ok
           /\ sig.TypeCovered = first.Type
           /\ sig.OriginalTTL = first.TTL
           /\ sig.Labels = Len(first.Name)
           /\ sig.Algorithm = sigcall.algo
           /\ sig.Expiration = sigcall.expiration
           /\ sig.Inception = sigcall.inception
           /\ sig.KeyTag = sigcall.keyTag
           /\ sig.SignerName = sigcall.signerName
           /\ sig.Signature.key = sigcall.privKey
           /\ sig.Signature.signed =
                 <<[sig EXCEPT !.Signature = << >>]>> \o sigcall.rrSet
           /\ sigcall.offset = sigcall.plainLen
           /\ sigcall.offset =
                 18 + NameWireLen(sigcall.signerName) + TotalWireSize(sigcall.rrSet)

\* A list of three records whose first and last differ in type, TTL and
\* owner.
C17_Witness ==
    /\ sigcall.pc = "done"
    /\ Len(sigcall.rrSet) = 3
    /\ sigcall.rrSet[1].Type # sigcall.rrSet[3].Type
    /\ sigcall.rrSet[1].TTL # sigcall.rrSet[3].TTL
    /\ sigcall.rrSet[1].Name # sigcall.rrSet[2].Name
    /\ sigcall.rrsig.Signature.signed[4] = sigcall.rrSet[3]

\* C18: however the bytes of a TCP connection are split across reads,
\* handleStreamConn sends on the channel one packet equal to the complete
\* message body announced by the 2-byte prefix, after all bytes of the body
\* have been read.
C18_WholeBodyDelivered ==
    conn.pc = "sent" =>
        /\ conn.sent = <<SubSeq(conn.stream, 3, Len(conn.stream))>>
        /\ conn.sz = Len(conn.stream)

\* The private half of the key pair whose public half a DNSKEY record holds.
PrivateHalfOf(rec) == <<"priv", rec.RData.PublicKey[1]>>

\* C19: every entry of the cache for a zone Z holds DNSKEYRespSec = [ZSK
\* record, KSK record, RRSIG record], all owned by Z; ZSKTag and KSKTag are
\* the key tags of the two keys and PrivateZSK and PrivateKSK their private
\* halves; the RRSIG covers the two DNSKEY records in that order, is made
\* with the KSK's private key, carries KSKTag and names Z as signer.
C19_EntryIsSelfSignedKeySet ==
    \A z \in DOMAIN DNSSECMap :
        LET m == DNSSECMap[z]
            zskRR == m.DNSKEYRespSec[1]
            kskRR == m.DNSKEYRespSec[2]
            sig == m.DNSKEYRespSec[3].RData
        IN /\ IsKeySet(m.DNSKEYRespSec, z)
           /\ m.ZSKTag = ReferenceKeyTag(DNSKEYEncode(zskRR.RData))
           /\ m.KSKTag = ReferenceKeyTag(DNSKEYEncode(kskRR.RData))
           /\ m.PrivateZSK = PrivateHalfOf(zskRR)
           /\ m.PrivateKSK = PrivateHalfOf(kskRR)
           /\ zskRR.RData.PublicKey # kskRR.RData.PublicKey
           /\ sig.TypeCovered = "DNSKEY"
           /\ sig.Signature.signed =
                 <<[sig EXCEPT !.Signature = << >>], zskRR, kskRR>>
           /\ sig.Signature.key = m.PrivateKSK
           /\ sig.KeyTag = m.KSKTag
           /\ sig.SignerName = z

\* A cache of three entries, two of which Response created at different
\* times.
C19_Witness ==
    /\ Cardinality(DOMAIN DNSSECMap) = 3
    /\ \E z, y \in DOMAIN DNSSECMap :
          /\ createCount[z] = 1 /\ createCount[y] = 1
          /\ DNSSECMap[z].DNSKEYRespSec[3].RData.Inception
                # DNSSECMap[y].DNSKEYRespSec[3].RData.Inception

\* C20: DecodeDomainNameFromBuffer terminates on every buffer and every
\* offset, also when a pointer points at itself, forward, or into a cycle
\* of pointers: no call recurses without end.
C20_DecodeTerminates ==
    bufdec.pc = "done" => bufdec.res.kind # "overflow"

\* C21: after any sequence of StatefulResponser.Response calls, every
\* client that sent a query has a record whose QueryTimes is the number of
\* queries received from it and whose QueryList holds those queries in
\* arrival order; a client that sent none has no record.
C21_ClientRecordsExact ==
    \A ip \in ClientIPs :
        IF arrived[ip] = << >> THEN ip \notin DOMAIN ClientMap
        ELSE /\ ip \in DOMAIN ClientMap
             /\ ClientMap[ip].QueryTimes = Len(arrived[ip])
             /\ ClientMap[ip].QueryList = arrived[ip]

=============================================================================
